---- MODULE Spec2Model ----
(***************************************************************************)
(* Trade journal of solana-wallet-tracker: the input form that creates a   *)
(* trade record, the GeckoTerminal OHLCV client, the trade performance     *)
(* analysis (window filter, extremum scan, derived percentages), and the   *)
(* page around them: the trade list and its handlers, the localStorage     *)
(* load and save effects, the tabs, and the cards with their polling       *)
(* timers and pending analyses.                                            *)
(*                                                                         *)
(* JavaScript values are records tagged by their type (field t), so that   *)
(* null, undefined, strings and numbers can sit in the same field and be   *)
(* compared.  A number is an extended rational n/d, d >= 0, in lowest      *)
(* terms: d = 0 encodes Infinity (n = 1), -Infinity (n = -1) and NaN       *)
(* (n = 0).  Arithmetic follows IEEE-754 for the special values; rounding  *)
(* of finite results and the sign of zero are not modelled.                *)
(***************************************************************************)
EXTENDS Integers, Sequences, FiniteSets, TLC

VARIABLES now, feed, selectedToken, activeTab, trades, storage, loaded,
          cards, timers, analyzing, inflight, last

vars == <<now, feed, selectedToken, activeTab, trades, storage, loaded,
          cards, timers, analyzing, inflight, last>>

(***************************************************************************)
(* JavaScript values                                                       *)
(***************************************************************************)
Null == [t |-> "null"]

Undefined == [t |-> "undefined"]

Str(s) == [t |-> "string", s |-> s]

Abs(i) == IF i < 0 THEN -i ELSE i

Sign(i) == IF i > 0 THEN 1 ELSE IF i < 0 THEN -1 ELSE 0

RECURSIVE GCD(_, _)
GCD(a, b) == IF b = 0 THEN a ELSE GCD(b, a % b)

\* The number n/d in lowest terms with a positive denominator; d = 0 gives
\* Infinity, -Infinity or NaN by the sign of n.
Rat(n, d) ==
    IF d = 0 THEN [t |-> "number", n |-> Sign(n), d |-> 0]
    ELSE LET g == GCD(Abs(n), Abs(d))
         IN  [t |-> "number", n |-> (Sign(d) * n) \div g, d |-> Abs(d) \div g]

Num(i) == Rat(i, 1)

NaN == Rat(0, 0)

Infinity == Rat(1, 0)

NegInfinity == Rat(-1, 0)

IsNaN(a) == a.d = 0 /\ a.n = 0

IsFinite(a) == a.d # 0

\* a - b
Sub(a, b) ==
    IF IsNaN(a) \/ IsNaN(b) THEN NaN
    ELSE IF IsFinite(a) /\ IsFinite(b) THEN Rat(a.n * b.d - b.n * a.d, a.d * b.d)
    ELSE IF IsFinite(a) THEN Rat(-b.n, 0)
    ELSE IF IsFinite(b) THEN a
    ELSE IF a.n = b.n THEN NaN ELSE a

\* a * b
Mul(a, b) ==
    IF IsNaN(a) \/ IsNaN(b) THEN NaN
    ELSE IF IsFinite(a) /\ IsFinite(b) THEN Rat(a.n * b.n, a.d * b.d)
    ELSE Rat(Sign(a.n) * Sign(b.n), 0)

\* a / b (a zero divisor is +0)
Div(a, b) ==
    IF IsNaN(a) \/ IsNaN(b) THEN NaN
    ELSE IF IsFinite(a) /\ IsFinite(b) THEN Rat(a.n * b.d, a.d * b.n)
    ELSE IF IsFinite(a) THEN Num(0)
    ELSE IF IsFinite(b) THEN Rat(a.n * (IF b.n < 0 THEN -1 ELSE 1), 0)
    ELSE NaN

\* a < b; every comparison with NaN is false
Lt(a, b) ==
    /\ ~IsNaN(a)
    /\ ~IsNaN(b)
    /\ IF IsFinite(a) /\ IsFinite(b) THEN a.n * b.d < b.n * a.d
       ELSE IF IsFinite(a) THEN b.n > 0
       ELSE IF IsFinite(b) THEN a.n < 0
       ELSE a.n < b.n

Gt(a, b) == Lt(b, a)

Le(a, b) == ~IsNaN(a) /\ ~IsNaN(b) /\ ~Lt(b, a)

Ge(a, b) == Le(b, a)

\* ToBoolean: null, undefined, "", 0 and NaN are falsy
Truthy(v) ==
    CASE v.t = "null" -> FALSE
      [] v.t = "undefined" -> FALSE
      [] v.t = "string" -> v.s # ""
      [] v.t = "number" -> ~IsNaN(v) /\ v.n # 0
      [] OTHER -> TRUE

(***************************************************************************)
(* Bounds and inputs                                                       *)
(***************************************************************************)
MaxTrades == 1

MaxCandles == 2

MaxClock == 1

\* handleAnalyze calls pending at a time
MaxPending == 1

\* Date.now(): the client's clock, in ms
ClockValues == {60000 + k * 60000 : k \in 0..MaxClock}

\* candle open times as the provider reports them, in whole seconds
CandleTimes == {0, 60, 120}

\* <<low, high>> of a candle
PricePairs == {<<1, 3>>, <<5, 6>>}

\* A provider tuple [timestamp, open, high, low, close, volume]
Candles == {<<ts, p[1], p[2], p[1], p[2], 0>> : ts \in CandleTimes, p \in PricePairs}

RECURSIVE SeqsUpTo(_, _)
SeqsUpTo(S, n) ==
    IF n = 0 THEN {<<>>}
    ELSE LET shorter == SeqsUpTo(S, n - 1)
         IN  shorter \cup {Append(q, x) : q \in {r \in shorter : Len(r) = n - 1}, x \in S}

\* The series a provider can return: any order, duplicates allowed
Series == SeqsUpTo(Candles, MaxCandles)

\* What the user can type in the numeric and datetime-local inputs
BuyPriceTexts == {"0", "2", "3"}

SellPriceTexts == {"", "0", "2.5"}

BuyTimeTexts == {"1970-01-01T00:01"}

SellTimeTexts == {"", "1970-01-01T00:00", "1970-01-01T00:01", "1970-01-01T00:02"}

FormInputs ==
    [buyPrice : BuyPriceTexts, buyAmount : {"100"}, buyMarketCap : {""},
     buyTimestamp : BuyTimeTexts, sellPrice : SellPriceTexts, sellAmount : {""},
     sellTimestamp : SellTimeTexts, notes : {""}]

\* A DexScreener pair as TokenSearch hands it to setSelectedToken
Token ==
    [baseToken |-> [address |-> "mintA", symbol |-> "AAA", name |-> "Token A"],
     pairAddress |-> "poolA", dexId |-> "raydium", chainId |-> "solana"]

(***************************************************************************)
(* Conversions of the JavaScript runtime                                   *)
(***************************************************************************)
DecimalText ==
    ("0" :> <<0, 1>>) @@ ("2" :> <<2, 1>>) @@ ("2.5" :> <<5, 2>>) @@
    ("3" :> <<3, 1>>) @@ ("100" :> <<100, 1>>)

\* parseFloat(s): the decimal the text spells, NaN for text that spells none
parseFloat(s) ==
    IF s \in DOMAIN DecimalText THEN Rat(DecimalText[s][1], DecimalText[s][2]) ELSE NaN

DateText ==
    ("1970-01-01T00:00" :> 0) @@ ("1970-01-01T00:01" :> 60000) @@
    ("1970-01-01T00:02" :> 120000)

\* new Date(v).getTime() for a datetime-local string (local zone taken as UTC)
getTime(v) ==
    IF v.t = "string" /\ v.s \in DOMAIN DateText THEN Num(DateText[v.s])
    ELSE IF v.t = "null" THEN Num(0)
    ELSE NaN

(***************************************************************************)
(* TradeInputForm.handleSubmit: the trade record built from the form       *)
(***************************************************************************)
NewTrade(formData, token, clock) ==
    [id |-> clock,
     tokenAddress |-> token.baseToken.address,
     tokenSymbol |-> token.baseToken.symbol,
     poolAddress |-> token.pairAddress,
     buyPrice |-> parseFloat(formData.buyPrice),
     buyAmount |-> parseFloat(formData.buyAmount),
     buyMarketCap |-> parseFloat(formData.buyMarketCap),
     buyTimestamp |-> Str(formData.buyTimestamp),
     sellPrice |-> IF formData.sellPrice # "" THEN parseFloat(formData.sellPrice) ELSE Null,
     sellAmount |-> IF formData.sellAmount # "" THEN parseFloat(formData.sellAmount) ELSE Null,
     sellTimestamp |-> IF formData.sellTimestamp # "" THEN Str(formData.sellTimestamp) ELSE Null,
     notes |-> Str(formData.notes),
     status |-> IF formData.sellPrice # "" THEN "closed" ELSE "open"]

(***************************************************************************)
(* GeckoTerminalAPI.getOHLCV                                               *)
(***************************************************************************)
\* Outcomes of fetch(): a rejection, or a response with a status class and a
\* body: text that is not JSON, the JSON value null, a JSON object without
\* data.attributes.ohlcv_list, one whose ohlcv_list is a message text
\* instead of a list, or one that carries a candle list.
Responses ==
    {[rejected |-> TRUE, ok |-> FALSE, body |-> "none", list |-> <<>>]}
    \cup [rejected : {FALSE}, ok : BOOLEAN,
          body : {"invalid", "null", "nolist", "text"}, list : {<<>>}]
    \cup [rejected : {FALSE}, ok : BOOLEAN, body : {"list"}, list : Series]

\* A JavaScript array
Array(items) == [t |-> "array", items |-> items]

\* The value the promise resolves to
getOHLCV(r) ==
    IF r.rejected THEN Array(<<>>)                \* fetch throws: catch
    ELSE IF r.body = "invalid" THEN Array(<<>>)   \* response.json() throws: catch
    ELSE IF r.body = "null" THEN Array(<<>>)      \* data.data throws TypeError: catch
    ELSE IF r.body = "nolist" THEN Array(<<>>)    \* undefined || []
    ELSE IF r.body = "text" THEN Str("unavailable")  \* truthy: returned as it is
    ELSE Array(r.list)

(***************************************************************************)
(* analyzeTradePerformance, after the await of getOHLCV                    *)
(***************************************************************************)
\* obj[f]: reading a property the object does not have gives undefined
Get(obj, f) == IF f \in DOMAIN obj THEN obj[f] ELSE Undefined

\* Faulty variant: the trade is closed along with the analysis
WithAnalysis_Closes(trade, analysis) ==
    [f \in DOMAIN trade \cup {"analysis"} |->
        IF f = "analysis" THEN analysis
        ELSE IF f = "status" THEN "closed"
        ELSE trade[f]]

\* { ...trade, analysis }
WithAnalysis(trade, analysis) ==
    [f \in DOMAIN trade \cup {"analysis"} |->
        IF f = "analysis" THEN analysis ELSE trade[f]]

\* ohlcvData.length is truthy and ohlcvData.filter is not a function: a
\* TypeError leaves analyzeTradePerformance
Throws(ohlcvData) == ohlcvData.t = "string" /\ ohlcvData.s # ""

buyTime(trade) == getTime(trade.buyTimestamp)

\* Faulty variant: the window always ends at the clock value
sellTime_AlwaysNow(trade, clock) == Num(clock)

\* clock is the value Date.now() returns when the line runs
sellTime(trade, clock) ==
    IF Truthy(trade.sellTimestamp) THEN getTime(trade.sellTimestamp) ELSE Num(clock)

candleTime(candle) == Mul(Num(candle[1]), Num(1000))

\* Faulty variant: the filter excludes both ends
InWindow_Exclusive(candle, from, to) ==
    Gt(candleTime(candle), from) /\ Lt(candleTime(candle), to)

\* Faulty variant: one bound is enough (|| in place of &&)
InWindow_Either(candle, from, to) ==
    Ge(candleTime(candle), from) \/ Le(candleTime(candle), to)

InWindow(candle, from, to) ==
    Ge(candleTime(candle), from) /\ Le(candleTime(candle), to)

\* Faulty variant: a candle equal to an earlier one of the series is dropped
relevantCandles_Distinct(ohlcvData, from, to) ==
    LET kept == {i \in 1..Len(ohlcvData) :
                    /\ InWindow(ohlcvData[i], from, to)
                    /\ \A j \in 1..(i - 1) : ohlcvData[j] # ohlcvData[i]}
        RECURSIVE Pick(_)
        Pick(i) == IF i > Len(ohlcvData) THEN <<>>
                   ELSE IF i \in kept THEN <<ohlcvData[i]>> \o Pick(i + 1)
                   ELSE Pick(i + 1)
    IN  Pick(1)

relevantCandles(ohlcvData, from, to) ==
    SelectSeq(ohlcvData, LAMBDA candle : InWindow(candle, from, to))

ScanInit ==
    [minPrice |-> Infinity, maxPrice |-> NegInfinity,
     minTimestamp |-> Null, maxTimestamp |-> Null]

\* Faulty variant: the low is read from the position of the high
ScanMin_WrongField(acc, candle) ==
    IF Lt(Num(candle[3]), acc.minPrice)
    THEN [acc EXCEPT !.minPrice = Num(candle[3]), !.minTimestamp = candleTime(candle)]
    ELSE acc

\* Faulty variant: a later candle with an equal low replaces the earlier one
ScanMin_LastWins(acc, candle) ==
    IF Le(Num(candle[4]), acc.minPrice)
    THEN [acc EXCEPT !.minPrice = Num(candle[4]), !.minTimestamp = candleTime(candle)]
    ELSE acc

\* One call of the forEach callback; [ts, open, high, low, close] = candle
ScanMin(acc, candle) ==
    IF Lt(Num(candle[4]), acc.minPrice)
    THEN [acc EXCEPT !.minPrice = Num(candle[4]), !.minTimestamp = candleTime(candle)]
    ELSE acc

\* Faulty variant: every candle replaces the running maximum
ScanMax_Overwrite(acc, candle) ==
    [acc EXCEPT !.maxPrice = Num(candle[3]), !.maxTimestamp = candleTime(candle)]

ScanMax(acc, candle) ==
    IF Gt(Num(candle[3]), acc.maxPrice)
    THEN [acc EXCEPT !.maxPrice = Num(candle[3]), !.maxTimestamp = candleTime(candle)]
    ELSE acc

RECURSIVE Scan(_, _, _)
Scan(candles, i, acc) ==
    IF i > Len(candles) THEN acc
    ELSE Scan(candles, i + 1, ScanMax(ScanMin(acc, candles[i]), candles[i]))

\* Faulty variant: the change is taken relative to the value, not to the buy price
PercentOf_RelativeToValue(value, buyPrice) ==
    Mul(Div(Sub(value, buyPrice), value), Num(100))

\* ((value - buyPrice) / buyPrice) * 100
PercentOf(value, buyPrice) == Mul(Div(Sub(value, buyPrice), buyPrice), Num(100))

pnlPercentOf(trade) ==
    IF Truthy(trade.sellPrice) THEN PercentOf(trade.sellPrice, trade.buyPrice) ELSE Null

\* Faulty variant: a zero maxGainPercent passes the gate
capturedPercentOf_ZeroGain(pnlPercent, maxGainPercent) ==
    IF pnlPercent # Null /\ Ge(maxGainPercent, Num(0))
    THEN Mul(Div(pnlPercent, maxGainPercent), Num(100))
    ELSE Null

capturedPercentOf(pnlPercent, maxGainPercent) ==
    IF pnlPercent # Null /\ Gt(maxGainPercent, Num(0))
    THEN Mul(Div(pnlPercent, maxGainPercent), Num(100))
    ELSE Null

Summary(trade, relevant) ==
    LET ext == Scan(relevant, 1, ScanInit)
        pnlPercent == pnlPercentOf(trade)
        maxGainPercent == PercentOf(ext.maxPrice, trade.buyPrice)
        maxDrawdownPercent == PercentOf(ext.minPrice, trade.buyPrice)
    IN  [t |-> "object",
         minPrice |-> ext.minPrice,
         maxPrice |-> ext.maxPrice,
         minTimestamp |-> ext.minTimestamp,
         maxTimestamp |-> ext.maxTimestamp,
         pnlPercent |-> pnlPercent,
         maxGainPercent |-> maxGainPercent,
         maxDrawdownPercent |-> maxDrawdownPercent,
         capturedPercent |-> capturedPercentOf(pnlPercent, maxGainPercent),
         candleCount |-> Len(relevant)]

\* Faulty variant: the empty-window return is missing
analyzeTradePerformance_NoWindowCheck(trade, ohlcvData, clock) ==
    IF Len(ohlcvData) = 0 THEN WithAnalysis(trade, Null)
    ELSE WithAnalysis(trade,
             Summary(trade, relevantCandles(ohlcvData, buyTime(trade), sellTime(trade, clock))))

\* The value the promise resolves to, given the array getOHLCV resolved to
analyzeTradePerformance(trade, ohlcvData, clock) ==
    IF Len(ohlcvData) = 0 THEN WithAnalysis(trade, Null)
    ELSE LET relevant == relevantCandles(ohlcvData, buyTime(trade), sellTime(trade, clock))
         IN  IF Len(relevant) = 0 THEN WithAnalysis(trade, Null)
             ELSE WithAnalysis(trade, Summary(trade, relevant))

(***************************************************************************)
(* JSON.stringify / JSON.parse of the trade list                           *)
(***************************************************************************)
\* A number that is not finite is written as null
JSONNumber(v) == IF v.t = "number" /\ ~IsFinite(v) THEN Null ELSE v

JSONSummary(a) ==
    IF a.t = "object"
    THEN [f \in DOMAIN a |-> IF f \in {"t", "candleCount"} THEN a[f] ELSE JSONNumber(a[f])]
    ELSE a

\* id, the token fields and status are a number and strings that JSON
\* writes as they are
JSONTrade(trade) ==
    [f \in DOMAIN trade |->
        IF f \in {"id", "tokenAddress", "tokenSymbol", "poolAddress", "status"} THEN trade[f]
        ELSE IF f = "analysis" THEN JSONSummary(trade[f])
        ELSE JSONNumber(trade[f])]

\* The text is represented by the value it spells
JSONstringify(list) ==
    [t |-> "string", json |-> [i \in 1..Len(list) |-> JSONTrade(list[i])]]

JSONparse(text) == text.json

(***************************************************************************)
(* TradeCard: the price-polling effect                                     *)
(***************************************************************************)
\* No interval handle
NoInterval == 0

\* setInterval returns a handle no active timer has
NewInterval(active) ==
    CHOOSE h \in 1..(Cardinality(active) + 1) :
        h \notin active /\ \A k \in 1..(h - 1) : k \in active

\* Faulty variant: the effect has no cleanup
CardEffect_NoCleanup(trade, interval, active) ==
    IF trade.status = "open"
    THEN [interval |-> NewInterval(active), timers |-> active \cup {NewInterval(active)}]
    ELSE [interval |-> NoInterval, timers |-> active]

\* useEffect(..., [trade]) of a card whose previous run left `interval`:
\* the cleanup of the previous run, then the effect for the new trade
CardEffect(trade, interval, active) ==
    LET cleared == active \ {interval}
    IN  IF trade.status = "open"
        THEN [interval |-> NewInterval(cleared), timers |-> cleared \cup {NewInterval(cleared)}]
        ELSE [interval |-> NoInterval, timers |-> cleared]

NoCards == [id \in {} |-> NoInterval]

\* trades.map(trade => <TradeCard key={trade.id} .../>): the cards of the
\* list mount in order, each running its effect
RECURSIVE MountCards(_, _, _)
MountCards(list, i, ui) ==
    IF i > Len(list) THEN ui
    ELSE LET e == CardEffect(list[i], NoInterval, ui.timers)
         IN  MountCards(list, i + 1,
                        [cards |-> (list[i].id :> e.interval) @@ ui.cards,
                         timers |-> e.timers])

\* The pending analyses of a card that unmounted keep running, but their
\* setAnalyzing reaches no mounted card
Orphaned(pending, ids) ==
    {[e EXCEPT !.live = @ /\ e.trade.id \notin ids] : e \in pending}

(***************************************************************************)
(* State                                                                   *)
(*   now            the client's clock (Date.now())                        *)
(*   feed           the provider: "any" when each request may be answered  *)
(*                  by any response, "some" when by one of a given set,    *)
(*                  "fixed" when the endpoint gives the same response to   *)
(*                  every request of the behaviour                         *)
(*   selectedToken  SolanaWalletTracker state                              *)
(*   activeTab      SolanaWalletTracker state                              *)
(*   trades         SolanaWalletTracker state, newest first                *)
(*   storage        localStorage['solana-wallet-trades']                   *)
(*   loaded         the list the load effect handed to setTrades, until    *)
(*                  the render that shows it                               *)
(*   cards          the mounted TradeCards: trade id -> the interval       *)
(*                  handle its effect holds (NoInterval for none)          *)
(*   timers         the handles of the page's active intervals             *)
(*   analyzing      ids of the TradeCards whose `analyzing` flag is set    *)
(*   inflight       the pending handleAnalyze calls: the trade each has    *)
(*                  captured and whether its card is still mounted         *)
(*   last           history: the response, the series and the clock value  *)
(*                  of the analysis that completed most recently, and      *)
(*                  whether its trade already carried an analysis and was  *)
(*                  still in the list; reset when another analysis starts  *)
(***************************************************************************)
NoRun == [t |-> "undefined"]

AnyFeed == [t |-> "any"]

FeedResponses ==
    IF feed.t = "fixed" THEN {feed.response}
    ELSE IF feed.t = "some" THEN feed.responses
    ELSE Responses

Tabs == {"dashboard", "new-trade", "api-info"}

NotLoaded == [t |-> "undefined"]

\* The page after its first visit: nothing stored, the save effect has run
InitApp ==
    /\ now = 60000
    /\ selectedToken = Null
    /\ activeTab = "dashboard"
    /\ trades = <<>>
    /\ storage = JSONstringify(<<>>)
    /\ loaded = NotLoaded
    /\ cards = NoCards
    /\ timers = {}
    /\ analyzing = {}
    /\ inflight = {}
    /\ last = NoRun

Init == InitApp /\ feed = AnyFeed

InitRepeat == InitApp /\ feed \in [t : {"fixed"}, response : Responses]

\* The clock advances
Tick ==
    /\ \E c \in ClockValues : c > now /\ now' = c
    /\ UNCHANGED <<feed, selectedToken, activeTab, trades, storage, loaded,
                   cards, timers, analyzing, inflight, last>>

\* The nav buttons.  Leaving the dashboard unmounts every card: the effect
\* cleanups run and the cards' state is dropped; entering it mounts a card
\* for every trade.
setActiveTab ==
    /\ loaded = NotLoaded
    /\ \E tab \in Tabs \ {activeTab} :
          /\ activeTab' = tab
          /\ IF tab = "dashboard"
             THEN LET ui == MountCards(trades, 1, [cards |-> NoCards, timers |-> timers])
                  IN  cards' = ui.cards /\ timers' = ui.timers
             ELSE /\ cards' = NoCards
                  /\ timers' = timers \ {cards[id] : id \in DOMAIN cards}
    /\ analyzing' = analyzing \cap DOMAIN cards'
    /\ inflight' = Orphaned(inflight, DOMAIN cards \ DOMAIN cards')
    /\ UNCHANGED <<now, feed, selectedToken, trades, storage, loaded, last>>

\* TokenSearch: onSelect(pair)
SelectToken ==
    /\ loaded = NotLoaded
    /\ activeTab = "new-trade"
    /\ selectedToken = Null
    /\ selectedToken' = Token
    /\ UNCHANGED <<now, feed, activeTab, trades, storage, loaded,
                   cards, timers, analyzing, inflight, last>>

\* The save effect, which runs after every render that changed `trades`
SaveEffect == storage' = JSONstringify(trades')

handleAddTrade(trade) ==
    /\ trades' = <<trade>> \o trades
    /\ selectedToken' = Null

\* TradeInputForm.handleSubmit with a form among `forms`.  The id is
\* Date.now(); a submission clears selectedToken, and the next one needs a
\* new token search, so two submissions never read the same millisecond,
\* nor does one read the millisecond of a trade whose analysis is pending.
Submit(forms, limit) ==
    /\ loaded = NotLoaded
    /\ activeTab = "new-trade"
    /\ selectedToken # Null
    /\ Len(trades) < limit
    /\ \A i \in 1..Len(trades) : trades[i].id # now
    /\ \A call \in inflight : call.trade.id # now
    /\ \E formData \in forms : handleAddTrade(NewTrade(formData, selectedToken, now))
    /\ SaveEffect
    /\ UNCHANGED <<now, feed, activeTab, loaded, cards, timers, analyzing, inflight, last>>

handleSubmit == Submit(FormInputs, MaxTrades)

\* Faulty variant: a trade that is not in the list is put back
handleUpdateTrade_Upsert(updatedTrade) ==
    trades' = IF \E i \in 1..Len(trades) : trades[i].id = updatedTrade.id
              THEN [i \in 1..Len(trades) |->
                       IF trades[i].id = updatedTrade.id THEN updatedTrade ELSE trades[i]]
              ELSE <<updatedTrade>> \o trades

\* Faulty variant: the entry is found by position, not by id
handleUpdateTrade_First(updatedTrade) ==
    trades' = [i \in 1..Len(trades) |-> IF i = 1 THEN updatedTrade ELSE trades[i]]

handleUpdateTrade(updatedTrade) ==
    trades' = [i \in 1..Len(trades) |->
                  IF trades[i].id = updatedTrade.id THEN updatedTrade ELSE trades[i]]

\* TradeCard.handleAnalyze up to the await: the fetch is issued.  The button
\* is disabled while the card's `analyzing` is set.
Analyze(limit) ==
    /\ Cardinality(inflight) < limit
    /\ \E i \in 1..Len(trades) :
          /\ trades[i].id \in DOMAIN cards
          /\ trades[i].id \notin analyzing
          /\ analyzing' = analyzing \cup {trades[i].id}
          /\ inflight' = inflight \cup {[trade |-> trades[i], live |-> TRUE]}
    /\ last' = NoRun
    /\ UNCHANGED <<now, feed, selectedToken, activeTab, trades, storage, loaded,
                   cards, timers>>

handleAnalyze == Analyze(MaxPending)

\* The render after handleUpdateTrade: the card of the updated trade, when
\* it is mounted and the trade is in the list, gets a new `trade` prop and
\* re-runs its effect
UpdateRender(id) ==
    IF id \in DOMAIN cards /\ \E i \in 1..Len(trades') : trades'[i].id = id
    THEN LET trade == trades'[CHOOSE i \in 1..Len(trades') : trades'[i].id = id]
             e == CardEffect(trade, cards[id], timers)
         IN  /\ cards' = [cards EXCEPT ![id] = e.interval]
             /\ timers' = e.timers
    ELSE UNCHANGED <<cards, timers>>

\* The fetch settles: getOHLCV resolves, analyzeTradePerformance runs to its
\* return, handleAnalyze calls onUpdate and clears `analyzing`
AnalyzeSettle ==
    /\ \E call \in inflight, response \in FeedResponses :
          LET ohlcvData == getOHLCV(response)
              trade == call.trade
          IN  /\ ~Throws(ohlcvData)
              /\ handleUpdateTrade(analyzeTradePerformance(trade, ohlcvData.items, now))
              /\ UpdateRender(trade.id)
              /\ analyzing' = IF call.live THEN analyzing \ {trade.id} ELSE analyzing
              /\ inflight' = inflight \ {call}
              /\ last' = [t |-> "run", id |-> trade.id, response |-> response,
                          ohlcvData |-> ohlcvData.items, at |-> now,
                          repeat |-> Get(trade, "analysis") # Undefined,
                          found |-> \E i \in 1..Len(trades) : trades[i].id = trade.id]
    /\ SaveEffect
    /\ UNCHANGED <<now, feed, selectedToken, activeTab, loaded>>

\* The fetch settles and analyzeTradePerformance throws: handleAnalyze has no
\* catch, so its promise rejects before onUpdate and setAnalyzing(false)
AnalyzeThrow ==
    /\ \E call \in inflight, response \in FeedResponses :
          /\ Throws(getOHLCV(response))
          /\ inflight' = inflight \ {call}
    /\ UNCHANGED <<now, feed, selectedToken, activeTab, trades, storage, loaded,
                   cards, timers, analyzing, last>>

\* The delete button of a card, with window.confirm answered OK (Cancel
\* changes nothing).  The card of the trade unmounts.
handleDeleteTrade ==
    /\ \E tradeId \in DOMAIN cards :
          /\ trades' = SelectSeq(trades, LAMBDA t : t.id # tradeId)
          /\ cards' = [id \in DOMAIN cards \ {tradeId} |-> cards[id]]
          /\ timers' = timers \ {cards[tradeId]}
          /\ analyzing' = analyzing \ {tradeId}
          /\ inflight' = Orphaned(inflight, {tradeId})
    /\ SaveEffect
    /\ UNCHANGED <<now, feed, selectedToken, activeTab, loaded, last>>

\* The page is reloaded: its timers and pending calls go with it, the
\* component mounts with its initial state, and the two mount effects run:
\* the load effect hands the stored list to setTrades, the save effect
\* writes the list of this render, which is empty.  getItem gives null or
\* a text JSON.stringify wrote, which is never the empty string.
Reload ==
    /\ selectedToken' = Null
    /\ activeTab' = "dashboard"
    /\ trades' = <<>>
    /\ cards' = NoCards
    /\ timers' = {}
    /\ analyzing' = {}
    /\ inflight' = {}
    /\ loaded' = IF storage # Null
                 THEN [t |-> "array", items |-> JSONparse(storage)]
                 ELSE NotLoaded
    /\ SaveEffect
    /\ UNCHANGED <<now, feed, last>>

\* The render with the list the load effect set: the cards mount and the
\* save effect runs again.  React renders it before it handles any user
\* event, so until then only the clock or another reload can step.
Restore ==
    /\ loaded # NotLoaded
    /\ trades' = loaded.items
    /\ loaded' = NotLoaded
    /\ LET ui == MountCards(trades', 1, [cards |-> NoCards, timers |-> timers])
       IN  cards' = ui.cards /\ timers' = ui.timers
    /\ SaveEffect
    /\ UNCHANGED <<now, feed, selectedToken, activeTab, analyzing, inflight, last>>

Next ==
    \/ Tick
    \/ setActiveTab
    \/ SelectToken
    \/ handleSubmit
    \/ handleAnalyze
    \/ AnalyzeSettle
    \/ AnalyzeThrow

Spec == Init /\ [][Next]_vars

\* The same request repeated against an endpoint whose answer does not change
SpecRepeat == InitRepeat /\ [][Next]_vars

(***************************************************************************)
(* The journal over its whole life: several trades, analyses running side  *)
(* by side, deletions and page reloads, on a small choice of forms and     *)
(* provider responses                                                      *)
(***************************************************************************)
JournalTrades == 2

JournalPending == 2

\* An open trade and a closed one
JournalForms ==
    {f \in FormInputs :
        /\ f.buyPrice = "2"
        /\ \/ f.sellPrice = "" /\ f.sellTimestamp = ""
           \/ f.sellPrice = "2.5" /\ f.sellTimestamp = "1970-01-01T00:02"}

\* A rejected fetch, a message text in place of the list, and a one-candle
\* series
JournalResponses ==
    {r \in Responses :
        \/ r.rejected
        \/ r.ok /\ r.body = "text"
        \/ r.ok /\ r.body = "list" /\ r.list = <<<<60, 1, 3, 1, 3, 0>>>>}

InitJournal == InitApp /\ feed = [t |-> "some", responses |-> JournalResponses]

submitJournal == Submit(JournalForms, JournalTrades)

analyzeJournal == Analyze(JournalPending)

NextJournal ==
    \/ Tick
    \/ setActiveTab
    \/ SelectToken
    \/ submitJournal
    \/ analyzeJournal
    \/ AnalyzeSettle
    \/ AnalyzeThrow
    \/ handleDeleteTrade
    \/ Reload
    \/ Restore

SpecJournal == InitJournal /\ [][NextJournal]_vars

(***************************************************************************)
(* Vocabulary of the properties: the analysis that completed most          *)
(* recently, and its holding window in integer milliseconds                *)
(***************************************************************************)
RunDone == last.t = "run"

LastTrade == trades[CHOOSE i \in 1..Len(trades) : trades[i].id = last.id]

Analysis == LastTrade.analysis

HasSummary == RunDone /\ Analysis.t = "object"

BuyInstant == DateText[LastTrade.buyTimestamp.s]

EndInstant ==
    IF LastTrade.sellTimestamp # Null THEN DateText[LastTrade.sellTimestamp.s] ELSE last.at

\* Positions in the fetched series of the candles inside [BuyInstant, EndInstant]
Inside ==
    {i \in 1..Len(last.ohlcvData) :
        /\ BuyInstant <= last.ohlcvData[i][1] * 1000
        /\ last.ohlcvData[i][1] * 1000 <= EndInstant}

LowAt(i) == last.ohlcvData[i][4]

HighAt(i) == last.ohlcvData[i][3]

MillisAt(i) == last.ohlcvData[i][1] * 1000

MinLow == CHOOSE v \in {LowAt(i) : i \in Inside} : \A j \in Inside : v <= LowAt(j)

MaxHigh == CHOOSE v \in {HighAt(i) : i \in Inside} : \A j \in Inside : v >= HighAt(j)

\* C1: an analysis that completed left analysis = null whenever the fetched
\* series was empty or held no candle inside [buyInstant, endInstant], and
\* a summary only when at least one candle lay inside the window.
C1_NullIffNoCandleInWindow ==
    RunDone =>
        /\ Analysis \in {Null} \/ Analysis.t = "object"
        /\ (Analysis = Null) <=> (Inside = {})

\* A non-empty series with every candle outside the window gave null
C1_Witness ==
    /\ RunDone
    /\ Len(last.ohlcvData) = 2
    /\ Inside = {}
    /\ Analysis = Null

\* C2: whatever the network call does short of delivering a 2xx response
\* with a candle list (rejection, non-2xx status, body that is not JSON,
\* JSON without data.attributes.ohlcv_list), getOHLCV resolved to the empty
\* series and the analysis is null.
C2_FailureGivesEmptySeries ==
    (/\ RunDone
     /\ \/ last.response.rejected
        \/ ~last.response.ok
        \/ last.response.body \in {"invalid", "null", "nolist"})
    => (last.ohlcvData = <<>> /\ Analysis = Null)

\* C3: in a summary minPrice / maxPrice are the least low / greatest high of
\* exactly the candles inside the window, and minTimestamp / maxTimestamp
\* are the millisecond times of inside candles attaining them.
C3_ExtremaOverWindow ==
    HasSummary =>
        /\ Analysis.minPrice = Num(MinLow)
        /\ Analysis.maxPrice = Num(MaxHigh)
        /\ \E i \in Inside : LowAt(i) = MinLow /\ Analysis.minTimestamp = Num(MillisAt(i))
        /\ \E i \in Inside : HighAt(i) = MaxHigh /\ Analysis.maxTimestamp = Num(MillisAt(i))

\* A candle outside the window carries a lower low and a higher high than
\* the one inside, and the summary reports the inside candle's values
C3_Witness ==
    /\ HasSummary
    /\ Cardinality(Inside) = 1
    /\ \E i \in 1..Len(last.ohlcvData) :
          i \notin Inside /\ LowAt(i) < MinLow
    /\ Analysis.minPrice = Num(5)
    /\ Analysis.maxPrice = Num(6)

\* C4: the filter is inclusive at both ends: the candles scanned are exactly
\* those with buyInstant <= time <= endInstant, so candles at exactly
\* buyInstant or endInstant are counted.
C4_InclusiveWindow ==
    (RunDone /\ Len(last.ohlcvData) > 0) =>
        IF Inside = {} THEN Analysis = Null
        ELSE Analysis.t = "object" /\ Analysis.candleCount = Cardinality(Inside)

\* One candle at exactly buyInstant and one at exactly endInstant, both counted
C4_Witness ==
    /\ HasSummary
    /\ BuyInstant < EndInstant
    /\ \E i, j \in Inside : MillisAt(i) = BuyInstant /\ MillisAt(j) = EndInstant
    /\ Analysis.candleCount = 2

\* C5: the window ends at the trade's sell timestamp for every closed trade
\* and at the clock value read by the analysis for every open trade.
C5_EndBoundByStatus ==
    (RunDone /\ Len(last.ohlcvData) > 0) =>
        IF LastTrade.status = "closed"
        THEN /\ LastTrade.sellTimestamp # Null
             /\ sellTime(LastTrade, last.at) = Num(DateText[LastTrade.sellTimestamp.s])
        ELSE sellTime(LastTrade, last.at) = Num(last.at)

\* C6: in a summary pnlPercent is null when the trade has no sell price,
\* and for every trade with a sell price it is the number
\* (sellPrice - buyPrice) / buyPrice * 100.
C6_PnlFromSellPrice ==
    HasSummary =>
        IF LastTrade.sellPrice = Null THEN Analysis.pnlPercent = Null
        ELSE /\ Analysis.pnlPercent # Null
             /\ Analysis.pnlPercent = PercentOf(LastTrade.sellPrice, LastTrade.buyPrice)

\* C7: capturedPercent is a number exactly when pnlPercent is one and
\* maxGainPercent > 0, and then it is pnlPercent / maxGainPercent * 100;
\* with maxGainPercent <= 0 it is null.
C7_CapturedGating ==
    HasSummary =>
        LET p == Analysis.pnlPercent
            g == Analysis.maxGainPercent
            c == Analysis.capturedPercent
        IN  /\ (c # Null) <=> (p # Null /\ g.n > 0)
            /\ (IsFinite(g) /\ g.n <= 0) => c = Null
            /\ c # Null =>
                  IF IsFinite(p) /\ IsFinite(g)
                  THEN IsFinite(c) /\ c.n * p.d * g.n = 100 * p.n * g.d * c.d
                  ELSE c = Mul(Div(p, g), Num(100))

\* pnlPercent 25 with maxGainPercent 50 gives capturedPercent 50
C7_Witness ==
    /\ HasSummary
    /\ Analysis.pnlPercent = Num(25)
    /\ Analysis.maxGainPercent = Num(50)
    /\ Analysis.capturedPercent = Num(50)

\* C8: for buyPrice > 0, maxGainPercent = (maxPrice - buyPrice) / buyPrice * 100
\* and maxDrawdownPercent = (minPrice - buyPrice) / buyPrice * 100 over the
\* extremes of the window.
C8_PercentDerivation ==
    (HasSummary /\ LastTrade.buyPrice.n > 0 /\ LastTrade.buyPrice.d > 0) =>
        LET b == LastTrade.buyPrice
            g == Analysis.maxGainPercent
            w == Analysis.maxDrawdownPercent
        IN  /\ Analysis.maxPrice = Num(MaxHigh)
            /\ Analysis.minPrice = Num(MinLow)
            /\ IsFinite(g) /\ g.n * b.n = g.d * 100 * (MaxHigh * b.d - b.n)
            /\ IsFinite(w) /\ w.n * b.n = w.d * 100 * (MinLow * b.d - b.n)

\* buyPrice 2, maxPrice 3, minPrice 1 give +50 and -50
C8_Witness ==
    /\ HasSummary
    /\ LastTrade.buyPrice = Num(2)
    /\ Analysis.maxPrice = Num(3)
    /\ Analysis.minPrice = Num(1)
    /\ Analysis.maxGainPercent = Num(50)
    /\ Analysis.maxDrawdownPercent = Num(-50)

\* The first position of the fetched series, among the inside candles, that
\* attains the least low (the greatest high)
FirstMinLow == CHOOSE i \in Inside : LowAt(i) = MinLow /\ \A j \in Inside : LowAt(j) = MinLow => i <= j

FirstMaxHigh == CHOOSE i \in Inside : HighAt(i) = MaxHigh /\ \A j \in Inside : HighAt(j) = MaxHigh => i <= j

\* C9: among inside candles sharing the least low (greatest high), the
\* timestamp reported is that of the one that comes first in the fetched
\* series.
C9_FirstTieWins ==
    HasSummary =>
        /\ Analysis.minTimestamp = Num(MillisAt(FirstMinLow))
        /\ Analysis.maxTimestamp = Num(MillisAt(FirstMaxHigh))

\* Two inside candles tie on the low; the first of the series is the later
\* in time, and its time is reported
C9_Witness ==
    /\ HasSummary
    /\ \E i, j \in Inside :
          /\ i < j
          /\ LowAt(i) = MinLow /\ LowAt(j) = MinLow
          /\ HighAt(i) = MaxHigh /\ HighAt(j) = MaxHigh
          /\ MillisAt(i) > MillisAt(j)
          /\ Analysis.minTimestamp = Num(MillisAt(i))
          /\ Analysis.maxTimestamp = Num(MillisAt(i))

\* A step that completes an analysis of a trade that already carries the
\* analysis of an earlier run
Reanalysis ==
    /\ last.t # "run"
    /\ last'.t = "run"
    /\ last'.repeat

AnalysisOf(list, id) == list[CHOOSE i \in 1..Len(list) : list[i].id = id].analysis

SellTimestampOf(list, id) ==
    list[CHOOSE i \in 1..Len(list) : list[i].id = id].sellTimestamp

\* C10: analysing the same trade again on the same series gives the same
\* outcome, open or closed (the endpoint's answer is fixed in SpecRepeat).
C10_Idempotent ==
    [][Reanalysis => AnalysisOf(trades', last'.id) = AnalysisOf(trades, last'.id)]_vars

\* C10 as amended: the same holds of every trade with a sell timestamp.
C10_IdempotentWithSellTimestamp ==
    [][(Reanalysis /\ SellTimestampOf(trades, last'.id) # Null)
          => AnalysisOf(trades', last'.id) = AnalysisOf(trades, last'.id)]_vars

\* A trade with a sell timestamp analysed a second time, later than it was
\* recorded, on a series that yields a summary
C10_Witness ==
    /\ HasSummary
    /\ last.repeat
    /\ feed.t = "fixed"
    /\ LastTrade.sellTimestamp # Null
    /\ last.at > LastTrade.id

\* How often candle c occurs in series q
Count(q, c) == Cardinality({i \in 1..Len(q) : q[i] = c})

\* The series that hold the candles of q in some order
Reorderings(q) ==
    {r \in Series : Len(r) = Len(q) /\ \A i \in 1..Len(q) : Count(r, q[i]) = Count(q, q[i])}

\* C11: the outcome does not depend on the order of the fetched candles:
\* analysing the same trade at the same clock value on any reordering of
\* the series gives null exactly when the completed analysis is null, and
\* otherwise the same minPrice, maxPrice, candleCount and percentages; a
\* reported timestamp differs only when candles of different times tie on
\* the extreme.
C11_OrderIndependent ==
    RunDone =>
        \A r \in Reorderings(last.ohlcvData) :
            LET other == analyzeTradePerformance(LastTrade, r, last.at).analysis
            IN  /\ (other = Null) <=> (Analysis = Null)
                /\ Analysis # Null =>
                      /\ \A f \in {"minPrice", "maxPrice", "candleCount", "pnlPercent",
                                    "maxGainPercent", "maxDrawdownPercent", "capturedPercent"} :
                            other[f] = Analysis[f]
                      /\ other.minTimestamp # Analysis.minTimestamp =>
                            \E i, j \in Inside :
                                /\ LowAt(i) = MinLow /\ LowAt(j) = MinLow
                                /\ MillisAt(i) # MillisAt(j)
                      /\ other.maxTimestamp # Analysis.maxTimestamp =>
                            \E i, j \in Inside :
                                /\ HighAt(i) = MaxHigh /\ HighAt(j) = MaxHigh
                                /\ MillisAt(i) # MillisAt(j)

\* A summary over two candles fetched in descending order of time, the
\* greatest high first, so that the reversed series is another input
C11_Witness ==
    /\ HasSummary
    /\ Len(last.ohlcvData) = 2
    /\ Inside = {1, 2}
    /\ MillisAt(1) > MillisAt(2)
    /\ HighAt(1) > HighAt(2)
    /\ Analysis.maxPrice = Num(HighAt(1))

\* C12: in every summary candleCount is the number of positions of the
\* fetched series (so equal candles count separately) whose candle lies in
\* the inclusive window, and it is at least 1; an analysis that is not
\* null is a summary, so none has candleCount = 0.
C12_CandleCount ==
    (RunDone /\ Analysis # Null) =>
        /\ Analysis.t = "object"
        /\ Analysis.candleCount >= 1
        /\ Analysis.candleCount =
              Cardinality({i \in 1..Len(last.ohlcvData) :
                              /\ MillisAt(i) >= BuyInstant
                              /\ MillisAt(i) <= EndInstant})

\* The same candle fetched twice, inside the window, counted twice
C12_Witness ==
    /\ HasSummary
    /\ Len(last.ohlcvData) = 2
    /\ last.ohlcvData[1] = last.ohlcvData[2]
    /\ Analysis.candleCount = 2

\* A step in which a pending handleAnalyze call completes with onUpdate.
\* No other step changes `last` to a run; a completion that repeats the
\* run before it (same trade, response and clock value) leaves `last` and
\* the list as they are.
Completes(call) ==
    /\ call \in inflight
    /\ inflight' = inflight \ {call}
    /\ last' # last
    /\ last'.t = "run"
    /\ last'.id = call.trade.id

EntryOf(list, id) == list[CHOOSE i \in 1..Len(list) : list[i].id = id]

HasEntry(list, id) == \E i \in 1..Len(list) : list[i].id = id

\* C13: whatever the return path, the record a completed analysis hands to
\* onUpdate is the trade the call captured with only `analysis` set: it has
\* the captured trade's properties plus `analysis`, each other property
\* with the captured value, and the analysis is null or a summary.
C13_OnlyAnalysisAttached ==
    [][\A call \in inflight :
          (Completes(call) /\ HasEntry(trades, call.trade.id)) =>
              LET result == EntryOf(trades', call.trade.id)
              IN  /\ DOMAIN result = DOMAIN call.trade \cup {"analysis"}
                  /\ \A f \in DOMAIN call.trade \ {"analysis"} : result[f] = call.trade[f]
                  /\ result.analysis = Null \/ result.analysis.t = "object"]_vars

\* A closed trade with a summary attached that still carries what the form
\* recorded
C13_Witness ==
    /\ HasSummary
    /\ LastTrade.status = "closed"
    /\ LastTrade.sellPrice = Rat(5, 2)
    /\ LastTrade.sellTimestamp = Str("1970-01-01T00:02")
    /\ LastTrade.buyPrice = Num(2)
    /\ LastTrade.buyMarketCap = NaN
    /\ LastTrade.poolAddress = "poolA"

\* The trade analysed last has a sell timestamp earlier than its buy
\* timestamp
Swapped ==
    /\ LastTrade.sellTimestamp # Null
    /\ DateText[LastTrade.sellTimestamp.s] < DateText[LastTrade.buyTimestamp.s]

\* C17: an analysis of a trade with swapped timestamps that was handed a
\* non-empty series ends in a summary, not in an absent analysis.
C17_SwappedGivesSummary ==
    (RunDone /\ Swapped /\ Len(last.ohlcvData) > 0) => HasSummary

\* C17 as amended: the swapped timestamps are not rejected: the analysis
\* runs and completes like any other, and since no candle time is both
\* >= buyTime and <= sellTime its result is always an absent analysis.
C17_SwappedGivesNull ==
    (RunDone /\ Swapped) =>
        /\ Inside = {}
        /\ Analysis = Null

\* Swapped timestamps, and candles fetched at the sell time and at the buy
\* time, left analysis = null
C17_Witness ==
    /\ RunDone
    /\ Swapped
    /\ Len(last.ohlcvData) = 2
    /\ MillisAt(1) = DateText[LastTrade.sellTimestamp.s]
    /\ MillisAt(2) = DateText[LastTrade.buyTimestamp.s]
    /\ Analysis = Null

\* Positions of series q whose candle lies in the holding window of trade,
\* the window of an open-ended trade ending at clock
InsideOf(trade, q, clock) ==
    LET from == DateText[trade.buyTimestamp.s]
        to == IF trade.sellTimestamp # Null THEN DateText[trade.sellTimestamp.s] ELSE clock
    IN  {k \in 1..Len(q) : from <= q[k][1] * 1000 /\ q[k][1] * 1000 <= to}

\* C14: each completion of an analysis, whatever else is pending, leaves
\* the list's length and order and every trade with another id as they
\* were, and the entry with its id becomes its own record with the
\* analysis of its own fetched series: null when that series has no candle
\* in its window, else a summary counting those candles.
C14_CompletionTouchesOwnEntry ==
    [][\A call \in inflight :
          Completes(call) =>
              /\ Len(trades') = Len(trades)
              /\ \A i \in 1..Len(trades) :
                    IF trades[i].id # call.trade.id THEN trades'[i] = trades[i]
                    ELSE LET inside == InsideOf(trades[i], last'.ohlcvData, last'.at)
                         IN  /\ \A f \in DOMAIN trades[i] \ {"analysis"} :
                                   trades'[i][f] = trades[i][f]
                             /\ (trades'[i].analysis = Null) <=> (inside = {})
                             /\ trades'[i].analysis # Null =>
                                   trades'[i].analysis.candleCount = Cardinality(inside)]_vars

\* Two analyses were pending together: the one of the newer trade has
\* completed with a summary while the one of the older trade, which already
\* carries the null of an earlier analysis, is still pending
C14_Witness ==
    /\ Len(trades) = 2
    /\ last.t = "run"
    /\ last.id = trades[1].id
    /\ Get(trades[1], "analysis") # Undefined
    /\ trades[1].analysis # Null
    /\ Get(trades[2], "analysis") = Null
    /\ [trade |-> trades[2], live |-> TRUE] \in inflight

\* C15: whenever the page is at rest, so that a reload may begin, the
\* list the load effect would restore, JSON.parse of the stored text, is
\* the list held in memory.
C15_RestoredEqualsMemory ==
    loaded = NotLoaded => JSONparse(storage) = trades

\* C16: a card is in the 'Analyzing...' state only while the network call
\* of its handleAnalyze is pending: once the call has settled, whatever
\* the provider's answer, onUpdate has run and `analyzing` is false again.
C16_AnalyzingOnlyWhilePending ==
    \A id \in analyzing : \E call \in inflight : call.live /\ call.trade.id = id

\* C18: the completion of an analysis whose trade has been deleted in the
\* meantime leaves the list as it is: no trade with that id comes back and
\* the other trades are unchanged.
C18_DeletedNotResurrected ==
    [][\A call \in inflight :
          (Completes(call) /\ ~HasEntry(trades, call.trade.id)) =>
              /\ ~HasEntry(trades', call.trade.id)
              /\ trades' = trades]_vars

\* An analysis has completed with a summary for a trade that was no longer
\* in the list, and the other trade is still there
C18_Witness ==
    /\ last.t = "run"
    /\ ~last.found
    /\ Len(last.ohlcvData) = 1
    /\ Len(trades) = 1
    /\ trades[1].id # last.id

\* The interval handles the mounted cards hold
HeldIntervals == {cards[id] : id \in DOMAIN cards} \ {NoInterval}

\* C19: the active polling timers are exactly the handles held by mounted
\* cards, no two cards hold the same one (so each card has at most one
\* timer and no timer is left behind by an unmount or by an earlier run of
\* the effect), a card that holds one shows a trade of the list whose
\* status is 'open', and cards are mounted only for trades of the list
\* while the dashboard is shown.
C19_OneTimerPerOpenCard ==
    /\ timers = HeldIntervals
    /\ \A a, b \in DOMAIN cards : (a # b /\ cards[a] # NoInterval) => cards[a] # cards[b]
    /\ \A id \in DOMAIN cards :
          /\ HasEntry(trades, id)
          /\ cards[id] # NoInterval => EntryOf(trades, id).status = "open"
    /\ activeTab # "dashboard" => cards = NoCards

\* The card of an open trade has re-run its effect because an analysis was
\* attached, next to the card of a closed trade; one timer is active
C19_Witness ==
    /\ last.t = "run"
    /\ last.found
    /\ inflight = {}
    /\ Len(trades) = 2
    /\ DOMAIN cards = {trades[1].id, trades[2].id}
    /\ last.id = trades[1].id
    /\ trades[1].status = "open"
    /\ Get(trades[1], "analysis") # Undefined
    /\ trades[2].status = "closed"
    /\ timers = {cards[trades[1].id]}
    /\ cards[trades[2].id] = NoInterval

====
